---- MODULE Spec2Model ----
(***************************************************************************)
(* Model of scripts/upload_foods.py: the resumable batch uploader.         *)
(*                                                                         *)
(* Persistent state: the remote 'foods' table (store) and the progress     *)
(* file upload_progress.json (file).  One process runs at a time; its      *)
(* volatile state is the position pc in main / batch_upload_foods and the  *)
(* locals of those functions.  The environment decides how each external   *)
(* call ends (page query, embedding request, upsert, file write) and may   *)
(* kill the process between any two steps.                                 *)
(***************************************************************************)
EXTENDS Integers, Sequences, FiniteSets, TLC

\* ------------------------------------------------------------------ bounds
\* number of records of the cleaned input file
NumFoods == 5
\* batch_size argument of batch_upload_foods (main uses the default, 50)
BatchSize == 2
\* number of invocations of the uploader that are explored
MaxRuns == 2

\* ------------------------------------------------------- program constants
\* max_retries of generate_embeddings
max_retries == 3
\* page_size of get_existing_food_ids (1000 in the source, scaled down so
\* that a store of NumFoods rows spans several pages)
page_size == 2

\* ------------------------------------------------------------------- data
\* external_ids of the input records
Ids == 1..NumFoods

\* the cleaned input file: records in file order (here descending ids, so
\* that file order differs from the store's key order)
all_foods == [k \in 1..NumFoods |-> NumFoods + 1 - k]

\* food['embedding_text'] of the record with the given external_id
embedding_text(id) == 10 + id

\* the vector the embedding service computes for one text
EmbeddingOf(text) == 100 + text

\* value of a store row's embedding when the row does not exist
NoRow == 0

\* value of main's 'uploaded' while batch_upload_foods has not returned
NotReported == 0 - 1

Min(a, b) == IF a < b THEN a ELSE b

Range(s) == {s[k] : k \in 1..Len(s)}

VARIABLES
    store,          \* remote table: external_id -> embedding (NoRow: absent)
    file,           \* the progress file on disk
    pc,             \* position of the running process ("idle": none runs)
    runs,           \* invocations started so far
    existing_ids,   \* main: result of get_existing_food_ids
    foods,          \* batch_upload_foods: its argument (main's new_foods)
    progress,       \* batch_upload_foods: the loaded progress dict
    uploaded_count, \* batch_upload_foods: local counter
    i,              \* batch_upload_foods: loop index
    attempt,        \* generate_embeddings: loop index
    embeddings,     \* batch_upload_foods: embeddings of the current batch
    uploaded,       \* main: value returned by batch_upload_foods (-1: none)
    sleeps,         \* history: delays slept by the current generate_embeddings
    calls,          \* history: service calls of the current generate_embeddings
    embedCount,     \* history: successful embeddings per id, all invocations
    runEmb,         \* history: successful embeddings per id, this invocation
    runUps,         \* history: upserts per id, this invocation
    cur,            \* history: summary of the current / last invocation
    prev,           \* history: summary of the invocation before it
    scan,           \* get_existing_food_ids run page by page (SpecScan)
    text,           \* create_embedding_text applied to records (SpecText)
    norm            \* the normalizer process usda_cleaner.py (SpecClean)

vars == <<store, file, pc, runs, existing_ids, foods, progress, uploaded_count,
          i, attempt, embeddings, uploaded, sleeps, calls, embedCount, runEmb,
          runUps, cur, prev, scan, text, norm>>

\* state of the uploader process and its history
uploader == <<store, file, pc, runs, existing_ids, foods, progress,
              uploaded_count, i, attempt, embeddings, uploaded, sleeps, calls,
              embedCount, runEmb, runUps, cur, prev>>

\* ------------------------------------------------------- progress ledger
\* the dict load_progress returns when there is no readable file
DefaultProgress == [uploaded_ids |-> <<>>, last_batch |-> 0, total_uploaded |-> 0]

NoFile == [st |-> "absent", data |-> DefaultProgress]

\* a file whose write broke off: only the beginning of the dict p (the first
\* entry of uploaded_ids) is on disk, and it does not parse
CorruptFile(p) ==
    [st |-> "corrupt",
     data |-> [uploaded_ids |-> SubSeq(p.uploaded_ids, 1, 1),
               last_batch |-> 0, total_uploaded |-> 0]]

\* variant: the content is used without the try/except around json.load
load_progress_NoCatch(f) == f.data

\* load_progress: the file's content, or the default when the file is
\* missing or json.load raises
load_progress(f) == IF f.st = "ok" THEN f.data ELSE DefaultProgress

\* save_progress: outcome "ok" writes the dict; "noopen" is open() raising
\* (file untouched); "partial" is the write raising after open() truncated
\* the file.  No outcome raises.
save_progress(f, p, outcome) ==
    CASE outcome = "ok" -> [st |-> "ok", data |-> p]
      [] outcome = "noopen" -> f
      [] OTHER -> CorruptFile(p)

SaveOutcomes == {"ok", "noopen", "partial"}

\* ------------------------------------------------------ existing-set query
\* rows of the table in key order, as the range query returns them
RECURSIVE StoreRows(_)
StoreRows(S) ==
    IF S = {} THEN <<>>
    ELSE LET m == CHOOSE x \in S : \A y \in S : x <= y
         IN <<m>> \o StoreRows(S \ {m})

StoredIds(st) == {id \in DOMAIN st : st[id] # NoRow}

\* .range(offset, offset + page_size - 1): one page of rows
RangeQuery(rows, offset) ==
    SubSeq(rows, offset + 1, Min(offset + page_size, Len(rows)))

\* variant: a failed request returns the ids collected so far
RECURSIVE ScanPages_ReturnsPartial(_, _, _, _, _)
ScanPages_ReturnsPartial(rows, offset, all_ids, page, failAt) ==
    IF page = failAt THEN all_ids
    ELSE LET data == RangeQuery(rows, offset)
         IN IF Len(data) = 0 THEN all_ids
            ELSE IF Len(data) < page_size THEN all_ids \cup Range(data)
            ELSE ScanPages_ReturnsPartial(rows, offset + page_size,
                                          all_ids \cup Range(data), page + 1, failAt)

\* the while loop of get_existing_food_ids; failAt is the number of the page
\* request that raises (0: none does)
RECURSIVE ScanPages(_, _, _, _, _)
ScanPages(rows, offset, all_ids, page, failAt) ==
    IF page = failAt THEN {}
    ELSE LET data == RangeQuery(rows, offset)
         IN IF Len(data) = 0 THEN all_ids
            ELSE IF Len(data) < page_size THEN all_ids \cup Range(data)
            ELSE ScanPages(rows, offset + page_size, all_ids \cup Range(data),
                           page + 1, failAt)

get_existing_food_ids(st, failAt) ==
    ScanPages(StoreRows(StoredIds(st)), 0, {}, 1, failAt)

\* page requests a scan of n rows makes
NumPages(n) == (n \div page_size) + 1

\* the failure injected at request failAt hits a request the scan makes
QueryFails(st, failAt) ==
    failAt >= 1 /\ failAt <= NumPages(Cardinality(StoredIds(st)))

\* ---------------------------------------------------------------- filter
\* variant: the ledger's uploaded_ids are not consulted
filter_new_foods_IgnoreLedger(fs, existing, prog) ==
    SelectSeq(fs, LAMBDA id : id \notin existing)

\* variant: the existing-in-store set is not consulted
filter_new_foods_IgnoreExisting(fs, existing, prog) ==
    SelectSeq(fs, LAMBDA id : id \notin Range(prog.uploaded_ids))

\* variant: 'or' in place of 'and' in the membership test
filter_new_foods_Or(fs, existing, prog) ==
    SelectSeq(fs, LAMBDA id : id \notin existing \/ id \notin Range(prog.uploaded_ids))

\* filter_new_foods: the input records in neither set, in input order
filter_new_foods(fs, existing, prog) ==
    LET uploaded_ids == Range(prog.uploaded_ids)
        keep(id) == id \notin existing /\ id \notin uploaded_ids
    IN SelectSeq(fs, keep)

\* --------------------------------------------------------------- batching
total_batches(fs) == (Len(fs) + BatchSize - 1) \div BatchSize

batch_start(b) == b * BatchSize

batch_end(fs, b) == Min(batch_start(b) + BatchSize, Len(fs))

\* foods[batch_start:batch_end]
Batch(fs, b) == SubSeq(fs, batch_start(b) + 1, batch_end(fs, b))

\* ids of the records of a batch, as a set
BatchIds(fs, b) == Range(Batch(fs, b))

\* --------------------------------------------------------- history records
\* summary of one invocation, kept for the properties
NoRun ==
    [how |-> "none",       \* none/running/noop/cancelled/completed/halted/crashed
     work |-> <<>>,        \* new_foods of the invocation
     noLedger |-> TRUE,    \* no progress file existed when it started
     startBatch |-> 0,     \* start_batch
     queryOK |-> TRUE,     \* the existing-set query did not fail
     lateFail |-> FALSE,   \* the query failed after its first page had succeeded
     faults |-> FALSE,     \* an embedding call failed or mismatched, or a save failed
     saved |-> "none",     \* outcome of the last save_progress: none/ok/failed
     savedAll |-> TRUE,    \* every save_progress of the invocation wrote the file
     skipped |-> {},       \* ids of batches skipped on a count mismatch
     visited |-> <<>>,     \* batches an embedding was requested for, in order
     remaining |-> {},     \* at its end: ids of work it did not upsert
     at |-> "",            \* position at which it was killed or halted
     known |-> {},         \* ids the query returned or the loaded ledger lists
     ledgerIds |-> {},     \* ids the ledger listed when it started
     storeFull |-> FALSE,  \* the store held every input record when it started
     deleted |-> FALSE]    \* it removed the progress file

Zero == [id \in Ids |-> 0]

Bump(f, S) == [id \in Ids |-> IF id \in S THEN Min(f[id] + 1, 2) ELSE f[id]]

Upserted(f) == {id \in Ids : f[id] > 0}

\* volatile state of a process that is not running
IdleLocals ==
    /\ foods' = <<>>
    /\ progress' = DefaultProgress
    /\ uploaded_count' = 0
    /\ i' = 0
    /\ attempt' = 0
    /\ embeddings' = <<>>

\* the invocation ends: how it ended and what it left undone
EndRun(how, where, c) ==
    [c EXCEPT !.how = how, !.at = where,
              !.remaining = Range(c.work) \ Upserted(runUps)]

\* ------------------------------------------------------------------- Init
\* the page scan, the text derivation and the normalizer when they do not run
ScanIdle == [pc |-> "idle"]

TextIdle == [pc |-> "idle"]

NormIdle == [pc |-> "idle"]

\* contents of the table before the first invocation: empty, or one record
\* of the input already uploaded by an earlier import
InitialStores == {{}, {(NumFoods + 1) \div 2}}

\* the uploader before its first invocation, but for the store
UploaderIdle ==
    /\ file = NoFile
    /\ pc = "idle"
    /\ runs = 0
    /\ existing_ids = {}
    /\ foods = <<>>
    /\ progress = DefaultProgress
    /\ uploaded_count = 0
    /\ i = 0
    /\ attempt = 0
    /\ embeddings = <<>>
    /\ uploaded = NotReported
    /\ sleeps = <<>>
    /\ calls = 0
    /\ embedCount = Zero
    /\ runEmb = Zero
    /\ runUps = Zero
    /\ cur = NoRun
    /\ prev = NoRun

\* the table that holds exactly the rows of S, each with its embedding
StoreOf(S) ==
    [id \in Ids |-> IF id \in S THEN EmbeddingOf(embedding_text(id)) ELSE NoRow]

Init ==
    /\ store \in {StoreOf(S) : S \in InitialStores}
    /\ UploaderIdle
    /\ scan = ScanIdle
    /\ text = TextIdle
    /\ norm = NormIdle

\* ------------------------------------------------------------------- main
\* main, from the existing-set query to the call of batch_upload_foods.
\* failAt: the page request that fails; confirm: the operator answers 'y'.
Main(failAt, confirm) ==
    /\ UNCHANGED <<scan, text, norm>>
    /\ pc = "idle"
    /\ runs < MaxRuns
    /\ LET existing == get_existing_food_ids(store, failAt)
           prog == load_progress(file)
           new_foods == filter_new_foods(all_foods, existing, prog)
           c == [NoRun EXCEPT !.how = "running", !.work = new_foods,
                              !.noLedger = (file.st = "absent"),
                              !.startBatch = prog.last_batch,
                              !.queryOK = ~QueryFails(store, failAt),
                              !.lateFail = (QueryFails(store, failAt) /\ failAt > 1),
                              !.known = existing \cup Range(prog.uploaded_ids),
                              !.ledgerIds = Range(prog.uploaded_ids),
                              !.storeFull = (Range(all_foods) \subseteq StoredIds(store))]
       IN /\ existing_ids' = existing
          /\ IF new_foods = <<>>
             THEN \* "All foods already exist in database!"
                  /\ pc' = "idle"
                  /\ foods' = <<>>
                  /\ cur' = [c EXCEPT !.how = "noop"]
             ELSE IF prog.last_batch = 0 /\ ~confirm
             THEN \* "Upload cancelled"
                  /\ pc' = "idle"
                  /\ foods' = <<>>
                  /\ cur' = [c EXCEPT !.how = "cancelled",
                                      !.remaining = Range(new_foods)]
             ELSE /\ pc' = "call"
                  /\ foods' = new_foods
                  /\ cur' = c
    /\ runs' = runs + 1
    /\ prev' = cur
    /\ uploaded' = NotReported
    /\ runEmb' = Zero
    /\ runUps' = Zero
    /\ progress' = DefaultProgress
    /\ uploaded_count' = 0
    /\ i' = 0
    /\ attempt' = 0
    /\ embeddings' = <<>>
    /\ sleeps' = <<>>
    /\ calls' = 0
    /\ UNCHANGED <<store, file, embedCount>>

\* ----------------------------------------------------- batch_upload_foods
\* entry of batch_upload_foods: the empty-list return, else load the
\* progress and position the loop at start_batch
Enter ==
    /\ UNCHANGED <<scan, text, norm>>
    /\ pc = "call"
    /\ IF foods = <<>>
       THEN /\ pc' = "idle"
            /\ uploaded' = 0
            /\ cur' = EndRun("noop", "", cur)
            /\ IdleLocals
            /\ UNCHANGED <<file, sleeps, calls>>
       ELSE LET prog == load_progress(file)
            IN /\ progress' = prog
               /\ i' = prog.last_batch
               /\ uploaded_count' = prog.total_uploaded
               /\ pc' = "loop"
               /\ UNCHANGED <<file, foods, attempt, embeddings, uploaded,
                              sleeps, calls, cur>>
    /\ UNCHANGED <<store, runs, existing_ids, embedCount, runEmb, runUps, prev>>

\* head of the for loop with a batch left: slice the batch and enter
\* generate_embeddings
NextBatch ==
    /\ UNCHANGED <<scan, text, norm>>
    /\ pc = "loop"
    /\ i < total_batches(foods)
    /\ pc' = "embed"
    /\ attempt' = 0
    /\ sleeps' = <<>>
    /\ calls' = 0
    /\ cur' = [cur EXCEPT !.visited = Append(@, Batch(foods, i))]
    /\ UNCHANGED <<store, file, runs, existing_ids, foods, progress,
                   uploaded_count, i, embeddings, uploaded, embedCount, runEmb,
                   runUps, prev>>

\* the for loop is exhausted: remove the progress file if it exists and
\* return uploaded_count
Finish ==
    /\ UNCHANGED <<scan, text, norm>>
    /\ pc = "loop"
    /\ i >= total_batches(foods)
    /\ file' = NoFile
    /\ pc' = "idle"
    /\ uploaded' = uploaded_count
    /\ cur' = [EndRun("completed", "", cur) EXCEPT !.deleted = (file.st # "absent")]
    /\ IdleLocals
    /\ UNCHANGED <<store, runs, existing_ids, sleeps, calls, embedCount, runEmb,
                   runUps, prev>>

\* ----------------------------------------------------- generate_embeddings
\* the embedding_text values of the current batch
BatchTexts == [k \in 1..Len(Batch(foods, i)) |-> embedding_text(Batch(foods, i)[k])]

\* what the service returns for the texts when it honours its contract
Response(texts) == [k \in 1..Len(texts) |-> EmbeddingOf(texts[k])]

\* responses whose length differs from the number of texts
BadResponses(texts) ==
    {SubSeq(Response(texts), 1, Len(texts) - 1),
     Append(Response(texts), EmbeddingOf(0))}

\* variant: linear delay
BackoffLinear(n) == 2 * n

\* time.sleep(2 ** attempt)
Backoff(n) == 2 ^ n

\* the service call succeeds with one vector per text: generate_embeddings
\* returns it and the count check passes
EmbedOK ==
    /\ UNCHANGED <<scan, text, norm>>
    /\ pc = "embed"
    /\ calls' = calls + 1
    /\ embeddings' = Response(BatchTexts)
    /\ pc' = "upsert"
    /\ embedCount' = Bump(embedCount, BatchIds(foods, i))
    /\ runEmb' = Bump(runEmb, BatchIds(foods, i))
    /\ UNCHANGED <<store, file, runs, existing_ids, foods, progress,
                   uploaded_count, i, attempt, uploaded, sleeps, runUps, cur, prev>>

\* variant: a mismatch ends the run like an exception does
EmbedMismatchHalts ==
    /\ UNCHANGED <<scan, text, norm>>
    /\ pc = "embed"
    /\ calls' = calls + 1
    /\ pc' = "idle"
    /\ uploaded' = uploaded_count
    /\ cur' = [EndRun("halted", "embed", cur) EXCEPT
                  !.faults = TRUE, !.skipped = @ \cup BatchIds(foods, i)]
    /\ IdleLocals
    /\ UNCHANGED <<store, file, runs, existing_ids, sleeps, embedCount, runEmb,
                   runUps, prev>>

\* the service call succeeds with a wrong number of vectors: the batch is
\* skipped with 'continue'
EmbedMismatch ==
    /\ UNCHANGED <<scan, text, norm>>
    /\ pc = "embed"
    /\ \E resp \in BadResponses(BatchTexts) : Len(resp) # Len(Batch(foods, i))
    /\ embeddings' = <<>>   \* not read again before the next batch assigns it
    /\ calls' = calls + 1
    /\ i' = i + 1
    /\ pc' = "loop"
    /\ cur' = [cur EXCEPT !.faults = TRUE,
                          !.skipped = @ \cup BatchIds(foods, i)]
    /\ UNCHANGED <<store, file, runs, existing_ids, foods, progress,
                   uploaded_count, attempt, uploaded, sleeps, embedCount, runEmb,
                   runUps, prev>>

\* variant: the attempt counter is not advanced
EmbedRetry_NoCount ==
    /\ UNCHANGED <<scan, text, norm>>
    /\ pc = "embed"
    /\ attempt < max_retries - 1
    /\ calls' = Min(calls + 1, max_retries + 1)
    /\ sleeps' = <<Backoff(attempt)>>
    /\ cur' = [cur EXCEPT !.faults = TRUE]
    /\ UNCHANGED <<store, file, pc, runs, existing_ids, foods, progress,
                   uploaded_count, i, attempt, embeddings, uploaded, embedCount,
                   runEmb, runUps, prev>>

\* the service call raises and attempts are left: sleep, then try again
EmbedRetry ==
    /\ UNCHANGED <<scan, text, norm>>
    /\ pc = "embed"
    /\ attempt < max_retries - 1
    /\ calls' = calls + 1
    /\ sleeps' = Append(sleeps, Backoff(attempt))
    /\ attempt' = attempt + 1
    /\ cur' = [cur EXCEPT !.faults = TRUE]
    /\ UNCHANGED <<store, file, pc, runs, existing_ids, foods, progress,
                   uploaded_count, i, embeddings, uploaded, embedCount, runEmb,
                   runUps, prev>>

\* the service call raises on the last attempt: generate_embeddings raises,
\* the handler of batch_upload_foods returns uploaded_count
EmbedExhausted ==
    /\ UNCHANGED <<scan, text, norm>>
    /\ pc = "embed"
    /\ ~(attempt < max_retries - 1)
    /\ calls' = calls + 1
    /\ pc' = "idle"
    /\ uploaded' = uploaded_count
    /\ cur' = [EndRun("halted", "embed", cur) EXCEPT !.faults = TRUE]
    /\ IdleLocals
    /\ UNCHANGED <<store, file, runs, existing_ids, sleeps, embedCount, runEmb,
                   runUps, prev>>

\* ------------------------------------------------------- upsert and ledger
\* variant: embeddings attached from the other end of the list
UploadDataReversed(batch, embs) ==
    [j \in 1..Len(batch) |->
        [external_id |-> batch[j], embedding |-> embs[Len(batch) + 1 - j]]]

\* the rows of the batch, each with the embedding at its own position
UploadData(batch, embs) ==
    [j \in 1..Len(batch) |-> [external_id |-> batch[j], embedding |-> embs[j]]]

\* variant: the last row of the payload is not written
upsert_DropsLast(st, rows) ==
    [id \in Ids |->
        IF \E j \in 1..(Len(rows) - 1) : rows[j].external_id = id
        THEN rows[CHOOSE j \in 1..(Len(rows) - 1) : rows[j].external_id = id].embedding
        ELSE st[id]]

\* upsert(..., on_conflict='external_id'): insert or replace by key
upsert(st, rows) ==
    [id \in Ids |->
        IF \E j \in 1..Len(rows) : rows[j].external_id = id
        THEN rows[CHOOSE j \in 1..Len(rows) :
                     /\ rows[j].external_id = id
                     /\ \A n \in 1..Len(rows) :
                           rows[n].external_id = id => n <= j].embedding
        ELSE st[id]]

\* the upsert of the batch succeeds
UpsertOK ==
    /\ UNCHANGED <<scan, text, norm>>
    /\ pc = "upsert"
    /\ store' = upsert(store, UploadData(Batch(foods, i), embeddings))
    /\ runUps' = Bump(runUps, BatchIds(foods, i))
    /\ pc' = "progress"
    /\ UNCHANGED <<file, runs, existing_ids, foods, progress, uploaded_count, i,
                   attempt, embeddings, uploaded, sleeps, calls, embedCount,
                   runEmb, cur, prev>>

\* variant: the handler leaves the loop with 'break', so the clean-up after
\* the loop removes the progress file
UpsertFailCleansUp ==
    /\ UNCHANGED <<scan, text, norm>>
    /\ pc = "upsert"
    /\ pc' = "idle"
    /\ uploaded' = uploaded_count
    /\ file' = NoFile
    /\ cur' = [EndRun("halted", "upsert", cur) EXCEPT !.faults = TRUE]
    /\ IdleLocals
    /\ UNCHANGED <<store, runs, existing_ids, sleeps, calls, embedCount,
                   runEmb, runUps, prev>>

\* the upsert raises: the handler returns uploaded_count
UpsertFail ==
    /\ UNCHANGED <<scan, text, norm>>
    /\ pc = "upsert"
    /\ pc' = "idle"
    /\ uploaded' = uploaded_count
    /\ cur' = [EndRun("halted", "upsert", cur) EXCEPT !.faults = TRUE]
    /\ IdleLocals
    /\ UNCHANGED <<store, file, runs, existing_ids, sleeps, calls, embedCount,
                   runEmb, runUps, prev>>

\* variant: the total restarts from the size of the batch
Advance_CountsBatchOnly(prog, batch, b, count) ==
    [uploaded_ids |-> prog.uploaded_ids \o batch,
     last_batch |-> b + 1,
     total_uploaded |-> Len(batch)]

\* the progress dict after the batch is recorded
Advance(prog, batch, b, count) ==
    [uploaded_ids |-> prog.uploaded_ids \o batch,
     last_batch |-> b + 1,
     total_uploaded |-> count]

\* "Update progress": count the batch, record its ids and the next batch
\* index, save the ledger, and go to the next iteration
UpdateProgress(outcome) ==
    /\ UNCHANGED <<scan, text, norm>>
    /\ pc = "progress"
    /\ LET count == uploaded_count + Len(Batch(foods, i))
           prog == Advance(progress, Batch(foods, i), i, count)
       IN /\ uploaded_count' = count
          /\ progress' = prog
          /\ file' = save_progress(file, prog, outcome)
    /\ i' = i + 1
    /\ pc' = "loop"
    /\ cur' = [cur EXCEPT !.saved = IF outcome = "ok" THEN "ok" ELSE "failed",
                          !.savedAll = @ /\ outcome = "ok",
                          !.faults = @ \/ outcome # "ok"]
    /\ UNCHANGED <<store, runs, existing_ids, foods, attempt, embeddings,
                   uploaded, sleeps, calls, embedCount, runEmb, runUps, prev>>

\* ------------------------------------------------------------------ crash
\* the process is killed between two steps: its locals are lost, the store
\* and the progress file stay as they are
Kill ==
    /\ UNCHANGED <<scan, text, norm>>
    /\ pc \in {"call", "loop", "embed", "upsert", "progress"}
    /\ pc' = "idle"
    /\ cur' = EndRun("crashed", pc, cur)
    /\ IdleLocals
    /\ UNCHANGED <<store, file, runs, existing_ids, uploaded, sleeps, calls,
                   embedCount, runEmb, runUps, prev>>

\* ------------------------------------------------------------------- Next
Next ==
    \/ \E failAt \in 0..NumPages(NumFoods), confirm \in BOOLEAN : Main(failAt, confirm)
    \/ Enter
    \/ NextBatch
    \/ Finish
    \/ EmbedOK
    \/ EmbedMismatch
    \/ EmbedRetry
    \/ EmbedExhausted
    \/ UpsertOK
    \/ UpsertFail
    \/ \E outcome \in SaveOutcomes : UpdateProgress(outcome)
    \/ Kill

Spec == Init /\ [][Next]_vars

\* ============================================================ properties
\* the invocation that just ended ran to the end of its loop with no failed
\* or mismatched embedding call, no failed save and a successful query
CleanCompleted(c) == c.how = "completed" /\ ~c.faults /\ c.queryOK

\* the invocation started without a ledger, skipped no batch and wrote the
\* ledger at every save: its ledger shows K committed batches and
\* total_uploaded = K * batch_size
LedgerExact(c) == c.noLedger /\ c.skipped = {} /\ c.savedAll

\* C1: resumption after a halt.  When a run halted on an embedding or upsert
\* failure with K batches committed and exactly recorded in the ledger, the
\* next invocation, if it runs to completion without a failure, has upserted
\* exactly the records the halted run left (each once, none of the committed
\* ones) by the time it deletes the ledger.
C1_RerunUploadsRemaining ==
    (pc = "idle" /\ CleanCompleted(cur) /\ prev.how = "halted" /\ LedgerExact(prev))
        => /\ Upserted(runUps) = prev.remaining
           /\ \A id \in Ids : runUps[id] <= 1

\* the batch of the previous invocation that follows the ones it visited
NextOriginalBatch == Batch(prev.work, Len(prev.visited))

\* the previous invocation was killed at the loop head, after the save of its
\* latest batch wrote the ledger
KilledAfterSave ==
    /\ prev.how = "crashed" /\ prev.at = "loop" /\ prev.saved = "ok"
    /\ LedgerExact(prev)

\* C2: crash safety.  After a kill between the ledger save of batch k and the
\* start of batch k+1, the next invocation starts with the records of the
\* original batch k+1, does not finish without visiting them, and neither
\* embeds nor upserts a record of batches 0..k.
C2_ResumeAtNextBatch ==
    (KilledAfterSave /\ cur.queryOK /\ cur.how # "cancelled")
        => /\ cur.visited # <<>> => cur.visited[1] = NextOriginalBatch
           /\ (cur.how = "completed" /\ prev.remaining # {}) => cur.visited # <<>>
           /\ \A id \in Range(prev.work) \ prev.remaining :
                 runEmb[id] = 0 /\ runUps[id] = 0

\* ceil(n / batch_size)
CeilDiv(n) == (n + BatchSize - 1) \div BatchSize

\* C3: a run that starts without a ledger and ends with no embedding failure,
\* no mismatch and no upsert failure visited its work as ceil(n / batch_size)
\* contiguous batches in input order, each full except possibly the last, and
\* upserted every record exactly once with the embedding of its own text.
C3_FreshRunUploadsAll ==
    (pc = "idle" /\ cur.how = "completed" /\ cur.noLedger /\ cur.skipped = {})
        => LET n == Len(cur.work)
               v == cur.visited
           IN /\ Len(v) = CeilDiv(n)
              /\ \A b \in 1..Len(v) :
                    /\ v[b] = SubSeq(cur.work, (b - 1) * BatchSize + 1,
                                     Min(b * BatchSize, n))
                    /\ b < Len(v) => Len(v[b]) = BatchSize
                    /\ Len(v[b]) >= 1 /\ Len(v[b]) <= BatchSize
              /\ \A id \in Ids :
                    IF id \in Range(cur.work)
                    THEN /\ runUps[id] = 1
                         /\ runEmb[id] = 1
                         /\ store[id] = EmbeddingOf(embedding_text(id))
                    ELSE runUps[id] = 0

\* C3 witness: a fresh failure-free run over the whole input, whose last
\* batch is shorter than the others unless the input divides evenly
C3_Witness ==
    /\ pc = "idle" /\ cur.how = "completed" /\ cur.noLedger /\ ~cur.faults
    /\ Len(cur.work) = NumFoods
    /\ Len(cur.visited) >= 2
    /\ \A id \in Ids : runUps[id] = 1

\* C4: the ledger file is deleted only when every record of the run's work is
\* in the store, so that the same input then holds no new record.  Stated for
\* runs in which no batch was skipped.
C4_DeletedOnlyWhenAllCommitted ==
    (pc = "idle" /\ cur.how = "completed" /\ cur.deleted
       /\ cur.skipped = {} /\ prev.skipped = {})
        => /\ \A id \in Range(cur.work) : store[id] # NoRow
           /\ filter_new_foods(all_foods, StoredIds(store), load_progress(file)) = <<>>

DidNothing ==
    /\ cur.how = "noop" /\ pc = "idle"
    /\ cur.visited = <<>>
    /\ runEmb = Zero /\ runUps = Zero
    /\ uploaded = NotReported

\* C6 (as claimed): when the store holds every input record, an invocation
\* requests no embedding, upserts nothing and reports no upload, whatever the
\* ledger holds.
C6_NoWorkWhenStoreFull == cur.storeFull => DidNothing

\* C6 (amended): the same, when the existing-set query succeeds.
C6_NoWorkWhenStoreFullAndQueried == (cur.storeFull /\ cur.queryOK) => DidNothing

\* C6 witness: a no-op invocation on a full store while a ledger is on disk
C6_Witness ==
    /\ cur.storeFull /\ cur.queryOK /\ cur.how = "noop"
    /\ file.st = "ok" /\ file.data.last_batch > 0

\* the step is the handler of batch_upload_foods returning after a failure
HaltStep == cur.how = "running" /\ cur'.how = "halted"

\* C7: when the embedding request exhausts its retries or the upsert fails,
\* the run ends at once (no further batch is visited), the progress file is
\* neither written nor removed, and unless a save failed it holds exactly the
\* in-memory ledger after the last committed batch: the ids loaded at the
\* start plus those upserted by this run, and none of the failed batch.
C7_HaltKeepsLedger ==
    [][HaltStep =>
         /\ pc' = "idle"
         /\ cur'.visited = cur.visited
         /\ file' = file
         /\ store' = store
         /\ uploaded' = uploaded_count
         /\ BatchIds(foods, i) \cap Range(load_progress(file).uploaded_ids) = {}
         /\ cur.saved # "failed" =>
               /\ load_progress(file) = progress
               /\ Range(progress.uploaded_ids) = cur.ledgerIds \cup Upserted(runUps)
               /\ progress.last_batch <= i]_vars

\* C7 witness: a run halted after committing a batch, with work left and the
\* ledger on disk
C7_Witness ==
    /\ pc = "idle" /\ cur.how = "halted"
    /\ file.st = "ok" /\ file.data.last_batch > 0
    /\ Upserted(runUps) # {} /\ cur.remaining # {}

\* the step is the count check failing for the current batch
MismatchStep == pc = "embed" /\ cur'.skipped # cur.skipped

\* C8: on a count mismatch no record of the batch is upserted, the ledger in
\* memory and on disk is unchanged, and the run goes on to the next batch.
C8_MismatchSkipsBatch ==
    [][MismatchStep =>
         /\ store' = store
         /\ runUps' = runUps
         /\ file' = file
         /\ progress' = progress
         /\ uploaded_count' = uploaded_count
         /\ cur'.how = "running"
         /\ pc' = "loop"
         /\ i' = i + 1
         /\ foods' = foods]_vars

\* C8 witness: the loop stands at the batch after a skipped one
C8_Witness ==
    /\ pc = "loop" /\ cur.how = "running"
    /\ i >= 1 /\ i < total_batches(foods)
    /\ BatchIds(foods, i - 1) \subseteq cur.skipped
    /\ BatchIds(foods, i - 1) \cap StoredIds(store) = {}

\* C9: a batch skipped on a count mismatch is embedded and upserted by the
\* next invocation, if that one runs to completion without a failure, whether
\* the run that skipped it completed or halted.
C9_SkippedBatchReattempted ==
    (pc = "idle" /\ CleanCompleted(cur) /\ prev.skipped # {}
       /\ prev.how \in {"completed", "halted"})
        => \A id \in prev.skipped : runEmb[id] >= 1 /\ runUps[id] >= 1

\* C10: generate_embeddings calls the service at most max_retries times,
\* returns at the first success, sleeps 1 then 2 seconds between failed
\* attempts and not after the last, and raises only after the third failure.
C10_BoundedRetry ==
    /\ calls <= max_retries
    /\ pc = "embed" =>
          /\ attempt < max_retries
          /\ calls = attempt
          /\ sleeps = [k \in 1..attempt |-> 2 ^ (k - 1)]
    /\ pc \in {"upsert", "progress"} =>
          /\ calls = attempt + 1
          /\ sleeps = [k \in 1..attempt |-> 2 ^ (k - 1)]
    /\ (pc = "idle" /\ cur.how = "halted" /\ cur.at = "embed") =>
          /\ calls = max_retries
          /\ sleeps = <<1, 2>>

\* C10 witness: a call that failed three times and raised
C10_Witness ==
    /\ pc = "idle" /\ cur.how = "halted" /\ cur.at = "embed"
    /\ calls = 3 /\ sleeps = <<1, 2>>

\* the invocation's query raised at some page request
QueryFailed == cur.how # "none" /\ ~cur.queryOK

\* C12: when a page request of the existing-set query fails, also after
\* earlier pages succeeded, main gets the empty set (not the ids collected so
\* far), filters the input against the ledger alone, and the invocation goes
\* on: it ends by its own no-op, cancel, completion or halt, or is killed.
C12_QueryFailureDegrades ==
    QueryFailed =>
        /\ existing_ids = {}
        /\ Range(cur.work) = Range(all_foods) \ cur.ledgerIds
        /\ cur.work = <<>> <=> cur.how = "noop"
        /\ cur.how = "cancelled" => cur.startBatch = 0
        /\ (pc = "idle" /\ cur.work # <<>>) =>
              cur.how \in {"cancelled", "completed", "halted", "crashed"}

\* C12 witness: the query failed after its first page, and the invocation
\* went on to upsert records
C12_Witness ==
    /\ QueryFailed /\ cur.lateFail
    /\ existing_ids = {}
    /\ Upserted(runUps) # {}
    /\ Upserted(runUps) \subseteq Range(cur.work)

\* batch_upload_foods has loaded the ledger and not saved it yet
LoadedNotSaved ==
    pc \in {"loop", "embed", "upsert", "progress"} /\ cur.saved = "none"

\* C13: load_progress gives the persisted state when the file is readable and
\* the default-empty state when it is missing or unreadable, and a
\* save_progress that fails leaves the run going with its in-memory ledger.
C13_LedgerNeverFails ==
    /\ LoadedNotSaved =>
          progress = IF file.st = "ok"
                     THEN file.data
                     ELSE [uploaded_ids |-> <<>>, last_batch |-> 0, total_uploaded |-> 0]
    /\ (pc = "loop" /\ cur.saved = "failed") =>
          /\ cur.how = "running"
          /\ i >= progress.last_batch
          /\ progress.total_uploaded = uploaded_count
          /\ Upserted(runUps) \subseteq Range(progress.uploaded_ids)

\* C13 witness: the previous run went on to a further batch after a save
\* that broke off, and this run has loaded the unreadable file as the default
C13_Witness ==
    /\ runs = 2 /\ LoadedNotSaved
    /\ file.st = "corrupt" /\ file.data.uploaded_ids # <<>>
    /\ progress.uploaded_ids = <<>> /\ progress.last_batch = 0
    /\ prev.saved = "failed" /\ ~prev.savedAll

\* position of a record in the input file
PosInInput(id) == CHOOSE k \in 1..Len(all_foods) : all_foods[k] = id

\* C18: filter_new_foods returns, in input order, exactly the input records
\* whose external_id is neither in the existing set nor in the ledger.
C18_FilterExact ==
    cur.how # "none" =>
        LET w == cur.work
        IN /\ \A k \in 1..Len(w) :
                 w[k] \notin existing_ids /\ w[k] \notin cur.ledgerIds
           /\ \A k \in 1..Len(all_foods) :
                 (all_foods[k] \notin existing_ids /\ all_foods[k] \notin cur.ledgerIds)
                    => \E j \in 1..Len(w) : w[j] = all_foods[k]
           /\ \A j1, j2 \in 1..Len(w) :
                 j1 < j2 => PosInInput(w[j1]) < PosInInput(w[j2])

\* C18 witness: records dropped for the store, records dropped for the
\* ledger, and several kept
C18_Witness ==
    /\ cur.how # "none"
    /\ cur.ledgerIds # {}
    /\ existing_ids \ cur.ledgerIds # {}
    /\ Len(cur.work) >= 2

\* the batch visited before the one the loop stands at
PreviousBatch == Range(cur.visited[Len(cur.visited) - 1])

\* C19 as stated: every id in the persisted ledger is in the store, and the
\* embedding request of a batch is issued only after the ledger update and
\* save of the batch before it.
C19_SaveBeforeNextEmbed ==
    /\ file.st = "ok" => Range(file.data.uploaded_ids) \subseteq StoredIds(store)
    /\ (pc = "embed" /\ Len(cur.visited) >= 2) =>
          /\ PreviousBatch \subseteq Range(progress.uploaded_ids)
          /\ cur.saved # "none"

\* C19 amended: every id in the persisted ledger is in the store, and within
\* a run the order per batch is embedding, upsert, ledger update and save: an
\* embedding is requested only when the batch before it was either skipped
\* on a count mismatch (no upsert, no ledger update) or upserted, recorded
\* and handed to save_progress; an upsert is made only for an embedded batch,
\* a ledger update only for an upserted batch.
C19_LedgerFollowsStore ==
    /\ file.st = "ok" => Range(file.data.uploaded_ids) \subseteq StoredIds(store)
    /\ pc = "embed" =>
          /\ Upserted(runUps) \subseteq Range(progress.uploaded_ids)
          /\ Upserted(runUps) # {} => cur.saved # "none"
          /\ BatchIds(foods, i) \cap Upserted(runUps) = {}
          /\ Len(cur.visited) >= 2 =>
                \/ PreviousBatch \subseteq cur.skipped /\ PreviousBatch \cap Upserted(runUps) = {}
                \/ PreviousBatch \subseteq Range(progress.uploaded_ids) /\ cur.saved # "none"
    /\ pc = "upsert" =>
          /\ \A id \in BatchIds(foods, i) : runEmb[id] >= 1 /\ runUps[id] = 0
          /\ BatchIds(foods, i) \cap Range(progress.uploaded_ids) = {}
    /\ pc = "progress" =>
          /\ BatchIds(foods, i) \subseteq StoredIds(store)
          /\ \A id \in BatchIds(foods, i) : runUps[id] >= 1
          /\ BatchIds(foods, i) \cap Range(progress.uploaded_ids) = {}

\* C19 witness: the embedding of a later batch is requested with the earlier
\* batch upserted and its ledger on disk
C19_Witness ==
    /\ pc = "embed" /\ i >= 1
    /\ Upserted(runUps) # {}
    /\ file.st = "ok" /\ Range(file.data.uploaded_ids) = Upserted(runUps)

\* C20: in every readable ledger on disk total_uploaded is the number of
\* entries of uploaded_ids, and no id occurs twice in uploaded_ids.
C20_LedgerCountsIds ==
    file.st = "ok" =>
        LET ids == file.data.uploaded_ids
        IN /\ file.data.total_uploaded = Len(ids)
           /\ \A j1, j2 \in 1..Len(ids) : ids[j1] = ids[j2] => j1 = j2

\* C20 witness: a ledger that a second run loaded non-empty and extended
C20_Witness ==
    /\ file.st = "ok" /\ runs = 2
    /\ cur.ledgerIds # {} /\ cur.saved = "ok"
    /\ Len(file.data.uploaded_ids) > Cardinality(cur.ledgerIds)
    /\ file.data.total_uploaded = Len(file.data.uploaded_ids)

\* ------------------------------------------------------------ termination
\* a step of batch_upload_foods: the interpreter runs the single thread on
\* from every position until the function returns
UploadStep ==
    \/ Enter
    \/ NextBatch
    \/ Finish
    \/ EmbedOK
    \/ EmbedMismatch
    \/ EmbedRetry
    \/ EmbedExhausted
    \/ UpsertOK
    \/ UpsertFail
    \/ \E outcome \in SaveOutcomes : UpdateProgress(outcome)

\* the uploader started on an empty store
FairInit ==
    /\ store = StoreOf({})
    /\ UploaderIdle
    /\ scan = ScanIdle
    /\ text = TextIdle
    /\ norm = NormIdle

\* the uploader with its thread kept running while it is not killed
FairSpec == FairInit /\ [][Next]_vars /\ WF_vars(UploadStep)

\* batch_upload_foods is running
InCall == pc \in {"call", "loop", "embed", "upsert", "progress"}

\* the batch visited last
LastVisited == Range(cur.visited[Len(cur.visited)])

\* number of batch indices from start_batch to the batch count
BatchesLeft ==
    IF cur.startBatch >= total_batches(cur.work) THEN 0
    ELSE total_batches(cur.work) - cur.startBatch

\* C21: every invocation of batch_upload_foods terminates; the batches it
\* visits are those of indices last_batch, last_batch + 1, ... below the
\* batch count, each once; a visited batch gets at most 3 embedding requests
\* and at most one upsert; the invocation ends either after the last index,
\* with the ledger file removed, or by returning at the first batch whose
\* embedding or upsert raised, which is then the last batch visited and is
\* not upserted.
C21_Terminates ==
    /\ [](cur.how # "none" =>
            /\ Len(cur.visited) <= BatchesLeft
            /\ \A k \in 1..Len(cur.visited) :
                  cur.visited[k] = Batch(cur.work, cur.startBatch + k - 1)
            /\ calls <= max_retries
            /\ \A id \in Ids : runUps[id] <= 1
            /\ Upserted(runUps) \subseteq UNION {Range(cur.visited[k]) : k \in 1..Len(cur.visited)})
    /\ []((pc = "idle" /\ cur.how = "completed") =>
            /\ Len(cur.visited) = BatchesLeft
            /\ file.st = "absent")
    /\ []((pc = "idle" /\ cur.how = "halted") =>
            /\ cur.visited # <<>>
            /\ LastVisited \cap Upserted(runUps) = {}
            /\ \A k \in 1..(Len(cur.visited) - 1) :
                  \/ Range(cur.visited[k]) \subseteq Upserted(runUps)
                  \/ Range(cur.visited[k]) \subseteq cur.skipped)
    /\ [](InCall => cur.how = "running")
    /\ InCall ~> (pc = "idle" /\ cur.how \in {"noop", "completed", "halted", "crashed"})

\* C21 witness: an invocation that upserted a batch, then made three failing
\* embedding requests for a later batch and returned
C21_Witness ==
    /\ pc = "idle" /\ cur.how = "halted" /\ cur.at = "embed"
    /\ calls = max_retries
    /\ Len(cur.visited) >= 2
    /\ Upserted(runUps) # {}

\* batch_upload_foods has returned its count to main
Returned == pc = "idle" /\ cur.how \in {"completed", "halted"}

\* C22: the count batch_upload_foods returns to main, reported as "Newly
\* uploaded", is the number of records the invocation upserted, when the run
\* completes and when it halts on a failure.
C22_ReportedEqualsUpserted ==
    Returned => uploaded = Cardinality(Upserted(runUps))

\* =================================================== get_existing_food_ids
\* The scan of the table, one page request per step, over a table that does
\* not change meanwhile.

\* locals of get_existing_food_ids before its first request
ScanStart ==
    [pc |-> "request",   \* request: about to query a page; done: returned
     offset |-> 0,
     all_ids |-> {},
     requests |-> 0,     \* history: page requests made
     lens |-> <<>>,      \* history: number of rows of each page received
     failed |-> FALSE,   \* history: a request raised
     result |-> {}]      \* the returned set

\* variant: the first page is taken for the whole table
ScanAfterPage_NoPaging(s, data) ==
    [s EXCEPT !.pc = "done", !.requests = @ + 1, !.lens = Append(@, Len(data)),
              !.all_ids = @ \cup Range(data), !.result = s.all_ids \cup Range(data)]

\* body of the while loop once the page request has returned data
ScanAfterPage(s, data) ==
    LET t == [s EXCEPT !.requests = @ + 1, !.lens = Append(@, Len(data))]
        ids == s.all_ids \cup Range(data)
    IN IF Len(data) = 0
       THEN [t EXCEPT !.pc = "done", !.result = s.all_ids]
       ELSE IF Len(data) < page_size
       THEN [t EXCEPT !.pc = "done", !.all_ids = ids, !.result = ids]
       ELSE [t EXCEPT !.all_ids = ids, !.offset = @ + page_size]

ScanInit ==
    /\ store \in {StoreOf(S) : S \in SUBSET Ids}
    /\ UploaderIdle
    /\ scan = ScanStart
    /\ text = TextIdle
    /\ norm = NormIdle

\* a page request succeeds
PageOK ==
    /\ scan.pc = "request"
    /\ scan' = ScanAfterPage(scan, RangeQuery(StoreRows(StoredIds(store)), scan.offset))
    /\ UNCHANGED <<uploader, text, norm>>

\* a page request raises: the handler returns the empty set
PageFail ==
    /\ scan.pc = "request"
    /\ scan' = [scan EXCEPT !.pc = "done", !.requests = @ + 1, !.failed = TRUE,
                            !.result = {}]
    /\ UNCHANGED <<uploader, text, norm>>

ScanNext == PageOK \/ PageFail

SpecScan == ScanInit /\ [][ScanNext]_vars /\ WF_vars(ScanNext)

\* the scan has returned without a failed request
ScanReturned == scan.pc = "done" /\ ~scan.failed

\* C11: over an unchanging table of any size the scan terminates and, when no
\* request fails, returns exactly the external_ids in the table; it reads
\* pages at successive offsets, every page but the last is full, and the
\* last one (possibly empty) has fewer rows than the page size.
C11_ScanReturnsStore ==
    /\ [](ScanReturned =>
            LET n == Cardinality(StoredIds(store))
            IN /\ scan.result = StoredIds(store)
               /\ scan.result = get_existing_food_ids(store, 0)
               /\ scan.requests = (n \div page_size) + 1
               /\ Len(scan.lens) = scan.requests
               /\ \A k \in 1..Len(scan.lens) :
                     IF k < Len(scan.lens)
                     THEN scan.lens[k] = page_size
                     ELSE scan.lens[k] = n - (k - 1) * page_size
                          /\ scan.lens[k] < page_size)
    /\ [](scan.pc = "request" => scan.offset = scan.requests * page_size)
    /\ <>(scan.pc = "done")

\* C11 witness: a table of exactly two full pages has been scanned with three
\* requests, the last one returning no row
C11_Witness ==
    /\ ScanReturned
    /\ Cardinality(StoredIds(store)) = 2 * page_size
    /\ scan.lens = <<page_size, page_size, 0>>
    /\ scan.result = StoredIds(store)

\* =================================================== create_embedding_text
\* Numeric fields are the stored values, which clean_food_data has rounded to
\* two decimals, counted in hundredths: 50.00 is 5000 and 50.01 is 5001.

\* str.lower() on the names and categories of the records below
Lower(str) ==
    CASE str = "Hummus, Commercial" -> "hummus, commercial"
      [] str = "Legumes and Legume Products" -> "legumes and legume products"
      [] str = "Sabra Hummus" -> "sabra hummus"
      [] str = "Unknown" -> "unknown"
      [] OTHER -> str

\* ' '.join(parts)
RECURSIVE Join(_)
Join(parts) ==
    IF Len(parts) = 0 THEN ""
    ELSE IF Len(parts) = 1 THEN parts[1]
    ELSE parts[1] \o " " \o Join(Tail(parts))

\* variant: the first calorie threshold is exclusive
CalorieToken_Exclusive(calories) ==
    IF calories < 5000 THEN "very low calorie"
    ELSE IF calories <= 10000 THEN "low calorie"
    ELSE IF calories <= 20000 THEN "moderate calorie"
    ELSE IF calories <= 40000 THEN "high calorie"
    ELSE "very high calorie"

CalorieToken(calories) ==
    IF calories <= 5000 THEN "very low calorie"
    ELSE IF calories <= 10000 THEN "low calorie"
    ELSE IF calories <= 20000 THEN "moderate calorie"
    ELSE IF calories <= 40000 THEN "high calorie"
    ELSE "very high calorie"

ProteinToken(protein) ==
    IF protein >= 2000 THEN "very high protein"
    ELSE IF protein >= 1500 THEN "high protein"
    ELSE IF protein >= 1000 THEN "moderate protein"
    ELSE IF protein >= 500 THEN "some protein"
    ELSE "low protein"

FatToken(fat) ==
    IF fat <= 300 THEN "low fat"
    ELSE IF fat <= 1000 THEN "moderate fat"
    ELSE "high fat"

CarbToken(carbs) ==
    IF carbs <= 500 THEN "very low carb keto friendly"
    ELSE IF carbs <= 2000 THEN "low carb"
    ELSE IF carbs <= 4500 THEN "moderate carb"
    ELSE "high carb"

FiberTokens(fiber) ==
    IF fiber >= 1000 THEN <<"very high fiber">>
    ELSE IF fiber >= 500 THEN <<"high fiber">>
    ELSE <<>>

SugarTokens(sugar) ==
    IF sugar >= 1500 THEN <<"high sugar sweet">>
    ELSE IF sugar <= 200 THEN <<"sugar free">>
    ELSE <<>>

SodiumTokens(sodium) ==
    IF sodium >= 60000 THEN <<"high sodium salty">>
    ELSE IF sodium <= 14000 THEN <<"low sodium">>
    ELSE <<>>

\* variant: the protein threshold of the first composite tag is 12
CompositeTags_Protein12(food) ==
    (IF food.protein_per_100g >= 1200 /\ food.calories_per_100g <= 20000
     THEN <<"lean protein snack">> ELSE <<>>)
    \o (IF food.fat_per_100g >= 1500 /\ food.carbs_per_100g <= 1000
        THEN <<"ketogenic food">> ELSE <<>>)
    \o (IF food.fiber_per_100g >= 500 /\ food.calories_per_100g <= 15000
        THEN <<"filling low calorie">> ELSE <<>>)

\* the search terms based on the nutritional profile
CompositeTags(food) ==
    (IF food.protein_per_100g >= 1500 /\ food.calories_per_100g <= 20000
     THEN <<"lean protein snack">> ELSE <<>>)
    \o (IF food.fat_per_100g >= 1500 /\ food.carbs_per_100g <= 1000
        THEN <<"ketogenic food">> ELSE <<>>)
    \o (IF food.fiber_per_100g >= 500 /\ food.calories_per_100g <= 15000
        THEN <<"filling low calorie">> ELSE <<>>)

\* the list 'parts' when create_embedding_text returns
EmbeddingParts(food) ==
    <<Lower(food.name), Lower(food.category),
      CalorieToken(food.calories_per_100g), ProteinToken(food.protein_per_100g),
      FatToken(food.fat_per_100g), CarbToken(food.carbs_per_100g)>>
    \o FiberTokens(food.fiber_per_100g)
    \o SugarTokens(food.sugar_per_100g)
    \o SodiumTokens(food.sodium_per_100g)
    \o CompositeTags(food)

create_embedding_text(food) == Join(EmbeddingParts(food))

\* the numeric fields create_embedding_text reads
NutrientFields ==
    {"calories_per_100g", "protein_per_100g", "fat_per_100g", "carbs_per_100g",
     "fiber_per_100g", "sugar_per_100g", "sodium_per_100g"}

\* the values a field takes in the records checked (hundredths)
NutrientValues ==
    [calories_per_100g |-> {5000, 5001, 15000, 15001, 20000, 20001, 40001},
     protein_per_100g |-> {499, 500, 1000, 1499, 1500, 2000},
     fat_per_100g |-> {300, 301, 1499, 1500},
     carbs_per_100g |-> {500, 501, 1000, 1001, 2001, 4501},
     fiber_per_100g |-> {0, 499, 500, 1000},
     sugar_per_100g |-> {200, 201, 1500},
     sodium_per_100g |-> {14000, 14001, 60000}]

\* the normalized records create_embedding_text is applied to
TextFoods ==
    [name : {"Hummus, Commercial"},
     category : {"Legumes and Legume Products"},
     calories_per_100g : NutrientValues.calories_per_100g,
     protein_per_100g : NutrientValues.protein_per_100g,
     fat_per_100g : NutrientValues.fat_per_100g,
     carbs_per_100g : NutrientValues.carbs_per_100g,
     fiber_per_100g : NutrientValues.fiber_per_100g,
     sugar_per_100g : NutrientValues.sugar_per_100g,
     sodium_per_100g : NutrientValues.sodium_per_100g]

TextInit ==
    /\ store = StoreOf({})
    /\ UploaderIdle /\ scan = ScanIdle /\ norm = NormIdle
    /\ text \in {[pc |-> "food", food |-> f] : f \in TextFoods}

\* clean_food['embedding_text'] = create_embedding_text(clean_food)
CreateText ==
    /\ text.pc = "food"
    /\ text' = [pc |-> "text", food |-> text.food,
                parts |-> EmbeddingParts(text.food),
                embedding_text |-> create_embedding_text(text.food)]
    /\ UNCHANGED <<uploader, scan, norm>>

\* the same call on a record that differs from the first in one numeric field
CreateOtherText ==
    /\ text.pc = "text"
    /\ \E k \in NutrientFields : \E v \in NutrientValues[k] \ {text.food[k]} :
          LET other == [text.food EXCEPT ![k] = v]
          IN text' = [pc |-> "pair", food |-> text.food, parts |-> text.parts,
                      embedding_text |-> text.embedding_text,
                      other |-> other,
                      other_text |-> create_embedding_text(other)]
    /\ UNCHANGED <<uploader, scan, norm>>

TextNext == CreateText \/ CreateOtherText

SpecText == TextInit /\ [][TextNext]_vars

\* number of entries of a list that belong to a set of tokens
CountIn(parts, tokens) == Cardinality({k \in 1..Len(parts) : parts[k] \in tokens})

CalorieGroup ==
    {"very low calorie", "low calorie", "moderate calorie", "high calorie",
     "very high calorie"}
ProteinGroup ==
    {"very high protein", "high protein", "moderate protein", "some protein",
     "low protein"}
FatGroup == {"low fat", "moderate fat", "high fat"}
CarbGroup ==
    {"very low carb keto friendly", "low carb", "moderate carb", "high carb"}

\* C14: the text of every normalized record has exactly one token of each of
\* the calorie, protein, fat and carb groups, the one the stated thresholds
\* select: calories <= 50 / <= 100 / <= 200 / <= 400 / above, protein >= 20 /
\* >= 15 / >= 10 / >= 5 / below, fat <= 3 / <= 10 / above, carbs <= 5 / <= 20
\* / <= 45 / above; calories 50.00 gives "very low calorie", 50.01 "low
\* calorie", protein 20.00 "very high protein".
C14_OneTokenPerGroup ==
    text.pc \in {"text", "pair"} =>
        LET p == text.parts
            c == text.food.calories_per_100g
            pr == text.food.protein_per_100g
            f == text.food.fat_per_100g
            cb == text.food.carbs_per_100g
            has(tok) == \E k \in 1..Len(p) : p[k] = tok
        IN /\ CountIn(p, CalorieGroup) = 1 /\ CountIn(p, ProteinGroup) = 1
           /\ CountIn(p, FatGroup) = 1 /\ CountIn(p, CarbGroup) = 1
           /\ has("very low calorie") <=> c <= 5000
           /\ has("low calorie") <=> (c > 5000 /\ c <= 10000)
           /\ has("moderate calorie") <=> (c > 10000 /\ c <= 20000)
           /\ has("high calorie") <=> (c > 20000 /\ c <= 40000)
           /\ has("very high calorie") <=> c > 40000
           /\ has("very high protein") <=> pr >= 2000
           /\ has("high protein") <=> (pr >= 1500 /\ pr < 2000)
           /\ has("moderate protein") <=> (pr >= 1000 /\ pr < 1500)
           /\ has("some protein") <=> (pr >= 500 /\ pr < 1000)
           /\ has("low protein") <=> pr < 500
           /\ has("low fat") <=> f <= 300
           /\ has("moderate fat") <=> (f > 300 /\ f <= 1000)
           /\ has("high fat") <=> f > 1000
           /\ has("very low carb keto friendly") <=> cb <= 500
           /\ has("low carb") <=> (cb > 500 /\ cb <= 2000)
           /\ has("moderate carb") <=> (cb > 2000 /\ cb <= 4500)
           /\ has("high carb") <=> cb > 4500
           /\ text.embedding_text = Join(p)

\* C14 witness: the text of a record with calories 50.00 and protein 20.00
C14_Witness ==
    /\ text.pc = "text"
    /\ text.food.calories_per_100g = 5000 /\ text.food.protein_per_100g = 2000
    /\ text.parts[3] = "very low calorie" /\ text.parts[4] = "very high protein"

\* the bucket of each nutrient: the ranges that select its token
NutrientBuckets(food) ==
    LET below(v, ts) == Cardinality({t \in ts : t < v})
        upto(v, ts) == Cardinality({t \in ts : t <= v})
    IN <<below(food.calories_per_100g, {5000, 10000, 20000, 40000}),
         upto(food.protein_per_100g, {500, 1000, 1500, 2000}),
         below(food.fat_per_100g, {300, 1000}),
         below(food.carbs_per_100g, {500, 2000, 4500}),
         upto(food.fiber_per_100g, {500, 1000}),
         IF food.sugar_per_100g >= 1500 THEN 2
         ELSE IF food.sugar_per_100g <= 200 THEN 0 ELSE 1,
         IF food.sodium_per_100g >= 60000 THEN 2
         ELSE IF food.sodium_per_100g <= 14000 THEN 0 ELSE 1>>

\* the sides of the thresholds that only the composite tags use
CompositeSides(food) ==
    <<food.calories_per_100g <= 15000, food.fat_per_100g >= 1500,
      food.carbs_per_100g <= 1000>>

SameNameAndCategory ==
    text.other.name = text.food.name /\ text.other.category = text.food.category

\* C15 as stated: two records with the same name and category and the same
\* bucket for every nutrient have the same embedding_text.
C15_SameBucketsSameText ==
    (text.pc = "pair" /\ SameNameAndCategory
       /\ NutrientBuckets(text.other) = NutrientBuckets(text.food))
        => text.other_text = text.embedding_text

\* C15 amended: two records with the same name and category, the same bucket
\* for every nutrient and the same side of the composite-tag thresholds
\* (calories <= 150, fat >= 15, carbs <= 10) have the same embedding_text.
C15_SameThresholdsSameText ==
    (text.pc = "pair" /\ SameNameAndCategory
       /\ NutrientBuckets(text.other) = NutrientBuckets(text.food)
       /\ CompositeSides(text.other) = CompositeSides(text.food))
        => text.other_text = text.embedding_text

\* C15 witness: two records that differ in a number and agree on every
\* threshold, with one text
C15_Witness ==
    /\ text.pc = "pair" /\ SameNameAndCategory
    /\ text.food.calories_per_100g = 15001 /\ text.other.calories_per_100g = 20000
    /\ text.food.protein_per_100g >= 1500 /\ text.food.fiber_per_100g >= 500
    /\ NutrientBuckets(text.other) = NutrientBuckets(text.food)
    /\ CompositeSides(text.other) = CompositeSides(text.food)
    /\ text.other_text = text.embedding_text

\* ============================================ clean_food_data, the cleaner
\* An optional value (a key that may be missing, a result that may be None)
\* is a sequence of length 0 or 1. Raw amounts are counted in thousandths.

MaxRaw == 2

None == <<>>

\* dict.get(key, default)
Get(opt, default) == IF opt = None THEN default ELSE opt[1]

NUTRIENT_IDS ==
    [ENERGY_KCAL |-> 1008, PROTEIN |-> 1003, FAT |-> 1004, CARBS |-> 1005,
     FIBER |-> 1079, SUGAR |-> 1063, SODIUM |-> 1093, CALCIUM |-> 1087,
     IRON |-> 1089, POTASSIUM |-> 1092, VITAMIN_C |-> 1162,
     SATURATED_FAT |-> 1258]

\* the amount of the first entry with the id; 0.0 when there is none or its
\* amount is missing or null
RECURSIVE get_nutrient(_, _)
get_nutrient(nutrients, nutrient_id) ==
    IF nutrients = <<>> THEN 0
    ELSE IF Head(nutrients).id = nutrient_id THEN Get(Head(nutrients).amount, 0)
    ELSE get_nutrient(Tail(nutrients), nutrient_id)

\* str.strip() on the descriptions of the records below
Strip(str) ==
    CASE str = "   " -> ""
      [] str = " Sabra Hummus " -> "Sabra Hummus"
      [] OTHER -> str

\* extract_brand on the names of the records below
extract_brand(name) == IF name = "Sabra Hummus" THEN <<"Sabra">> ELSE None

\* round(x, 2): thousandths to hundredths (no amount below ends in 5)
Round2(x) == (x + 5) \div 10

\* variant: only the name is required
MissingCriticalData_NameOnly(name, calories) == name = ""

\* 'if not name or calories == 0'
MissingCriticalData(name, calories) == name = "" \/ calories = 0

\* the record, or None, as a sequence of at most one record
clean_food_data(raw_food) ==
    IF Get(raw_food.description, "") = "" THEN None
    ELSE LET nutrients == Get(raw_food.foodNutrients, <<>>)
         IN IF nutrients = <<>> THEN None
            ELSE LET name == Strip(raw_food.description[1])
                     amount(key) == get_nutrient(nutrients, NUTRIENT_IDS[key])
                     calories == amount("ENERGY_KCAL")
                     sugar == IF amount("SUGAR") = 0
                              THEN get_nutrient(nutrients, 2000)
                              ELSE amount("SUGAR")
                     clean_food ==
                         [external_id |-> IF raw_food.fdcId = None THEN ""
                                          ELSE ToString(raw_food.fdcId[1]),
                          name |-> name,
                          description |-> name,
                          brand |-> extract_brand(name),
                          category |-> Get(raw_food.foodCategory, "Unknown"),
                          calories_per_100g |-> Round2(calories),
                          protein_per_100g |-> Round2(amount("PROTEIN")),
                          fat_per_100g |-> Round2(amount("FAT")),
                          carbs_per_100g |-> Round2(amount("CARBS")),
                          fiber_per_100g |-> Round2(amount("FIBER")),
                          sugar_per_100g |-> Round2(sugar),
                          sodium_per_100g |-> Round2(amount("SODIUM")),
                          data_source |-> "usda",
                          nutrients |->
                              [calcium_mg |-> Round2(amount("CALCIUM")),
                               iron_mg |-> Round2(amount("IRON")),
                               potassium_mg |-> Round2(amount("POTASSIUM")),
                               vitamin_c_mg |-> Round2(amount("VITAMIN_C")),
                               saturated_fat_g |-> Round2(amount("SATURATED_FAT"))]]
                 IN IF MissingCriticalData(name, calories) THEN None
                    ELSE <<[embedding_text |-> create_embedding_text(clean_food)]
                            @@ clean_food>>

\* a nutrient measurement of a raw record
Measure(id, amount) == [id |-> id, amount |-> amount]

\* the description fields of the raw records checked
RawDescriptions == {None, <<"">>, <<"   ">>, <<" Sabra Hummus ">>}

\* the foodNutrients fields of the raw records checked
RawNutrients ==
    {None,
     <<<<>>>>,
     <<<<Measure(1003, <<8123>>)>>>>,
     <<<<Measure(1008, None), Measure(1003, <<8123>>)>>>>,
     <<<<Measure(1008, <<0>>), Measure(1008, <<52346>>)>>>>,
     <<<<Measure(1008, <<4>>)>>>>,
     <<<<Measure(1008, <<52346>>), Measure(1003, <<8123>>),
         Measure(1063, <<0>>), Measure(2000, <<3456>>)>>>>,
     <<<<Measure(1008, <<166004>>), Measure(1003, <<7903>>),
         Measure(1004, <<9626>>), Measure(1005, <<14291>>),
         Measure(1079, <<6004>>), Measure(1063, <<480>>),
         Measure(1093, <<379001>>), Measure(1087, <<38002>>)>>>>}

\* the raw records checked; the category is missing where the nutrients are
RawFoods ==
    {[fdcId |-> None, description |-> d, foodNutrients |-> n,
      foodCategory |-> IF n = None THEN None ELSE <<"Legumes and Legume Products">>]
        : d \in RawDescriptions, n \in RawNutrients}

\* the input files: unreadable, or a list of raw records numbered by fdcId
InputFiles ==
    {[readable |-> FALSE, foods |-> <<>>]}
    \cup {[readable |-> TRUE,
           foods |-> [k \in 1..n |-> [fs[k] EXCEPT !.fdcId = <<k>>]]]
            : n \in 0..MaxRaw, fs \in [1..MaxRaw -> RawFoods]}

\* the exit status of a process that has not exited
NotExited == 0 - 1

\* sys.argv: its length, the content of the input file, the limit
CleanerRuns ==
    {[argc |-> 2, input |-> [readable |-> FALSE, foods |-> <<>>], limit |-> None]}
    \cup {[argc |-> 3, input |-> f, limit |-> None] : f \in InputFiles}
    \cup {[argc |-> 4, input |-> f, limit |-> <<1>>] : f \in InputFiles}

CleanInit ==
    /\ store = StoreOf({})
    /\ UploaderIdle /\ scan = ScanIdle /\ text = TextIdle
    /\ norm \in {[pc |-> "main", argv |-> r, i |-> 0, cleaned_foods |-> <<>>,
                  skipped |-> 0, output |-> None, status |-> NotExited]
                    : r \in CleanerRuns}

\* main: the usage exit, or the call of process_usda_json
CleanerMain ==
    /\ norm.pc = "main"
    /\ norm' = IF norm.argv.argc < 3
               THEN [norm EXCEPT !.pc = "exit", !.status = 1]
               ELSE [norm EXCEPT !.pc = "read"]
    /\ UNCHANGED <<uploader, scan, text>>

\* process_usda_json reads the input; on a failure it prints and returns,
\* main returns after it and the interpreter exits with status 0
ReadInput ==
    /\ norm.pc = "read"
    /\ norm' = IF norm.argv.input.readable
               THEN [norm EXCEPT !.pc = "loop", !.i = 1]
               ELSE [norm EXCEPT !.pc = "exit", !.status = 0]
    /\ UNCHANGED <<uploader, scan, text>>

\* 'if limit and len(cleaned_foods) >= limit'
LimitReached ==
    /\ Get(norm.argv.limit, 0) # 0
    /\ Len(norm.cleaned_foods) >= Get(norm.argv.limit, 0)

\* one iteration of the cleaning loop
CleanFood ==
    /\ norm.pc = "loop" /\ norm.i <= Len(norm.argv.input.foods) /\ ~LimitReached
    /\ LET clean_food == clean_food_data(norm.argv.input.foods[norm.i])
       IN norm' = [norm EXCEPT !.i = @ + 1,
                               !.cleaned_foods = @ \o clean_food,
                               !.skipped = IF clean_food = None THEN @ + 1 ELSE @]
    /\ UNCHANGED <<uploader, scan, text>>

\* the loop ends at the end of the input or at the limit
LoopEnd ==
    /\ norm.pc = "loop" /\ (norm.i > Len(norm.argv.input.foods) \/ LimitReached)
    /\ norm' = [norm EXCEPT !.pc = "save"]
    /\ UNCHANGED <<uploader, scan, text>>

\* the output file is written, or the write fails and is reported; main
\* returns either way
SaveOutput(ok) ==
    /\ norm.pc = "save"
    /\ norm' = [norm EXCEPT !.pc = "exit", !.status = 0,
                            !.output = IF ok
                                       THEN <<[total_foods |-> Len(norm.cleaned_foods),
                                               foods |-> norm.cleaned_foods]>>
                                       ELSE None]
    /\ UNCHANGED <<uploader, scan, text>>

CleanNext ==
    \/ CleanerMain
    \/ ReadInput
    \/ CleanFood
    \/ LoopEnd
    \/ \E ok \in BOOLEAN : SaveOutput(ok)

SpecClean == CleanInit /\ [][CleanNext]_vars

\* the raw records the loop has passed to clean_food_data
Cleaned == 1..(norm.i - 1)

\* the k-th raw record of the input
RawAt(k) == norm.argv.input.foods[k]

\* the calorie value extracted from the k-th raw record
ExtractedCalories(k) == get_nutrient(Get(RawAt(k).foodNutrients, <<>>), 1008)

\* the k-th raw record has no description, no nutrient measurement or zero
\* calories
Rejectable(k) ==
    \/ RawAt(k).description = None \/ RawAt(k).description = <<"">>
    \/ RawAt(k).foodNutrients = None \/ RawAt(k).foodNutrients = <<<<>>>>
    \/ ExtractedCalories(k) = 0

\* the k-th raw record has a non-empty name and calories above zero
ValidRaw(k) ==
    /\ RawAt(k).description # None /\ Strip(RawAt(k).description[1]) # ""
    /\ ExtractedCalories(k) > 0

\* the k-th raw record has a record in cleaned_foods
Yielded(k) ==
    \E j \in 1..Len(norm.cleaned_foods) :
        norm.cleaned_foods[j].external_id = ToString(k)

\* C16: of the raw records passed to clean_food_data, one with no or an
\* empty description, with no nutrient measurement or with an extracted
\* calorie value of zero yields no record, one with a non-empty name and
\* calories above zero yields a record, and the skip count is the number of
\* records that yielded none.
C16_RejectsAndCounts ==
    norm.pc \in {"loop", "save"} =>
        /\ \A k \in Cleaned : Rejectable(k) => ~Yielded(k)
        /\ \A k \in Cleaned : ValidRaw(k) => Yielded(k)
        /\ norm.skipped = Cardinality({k \in Cleaned : ~Yielded(k)})
        /\ norm.skipped >= Cardinality({k \in Cleaned : Rejectable(k)})
        /\ Len(norm.cleaned_foods) + norm.skipped = norm.i - 1
        /\ \A j \in 1..Len(norm.cleaned_foods) :
              norm.cleaned_foods[j].name # "" /\ norm.cleaned_foods[j].external_id # ""

\* C16 witness: a rejected record with zero calories and a cleaned record,
\* one skip counted
C16_Witness ==
    /\ norm.pc = "save" /\ norm.i = 3 /\ norm.skipped = 1
    /\ RawAt(1).description = <<" Sabra Hummus ">> /\ RawAt(1).foodNutrients # None
    /\ RawAt(1).foodNutrients # <<<<>>>> /\ ExtractedCalories(1) = 0
    /\ ~Yielded(1) /\ ValidRaw(2) /\ Yielded(2)

\* C17: when the input file cannot be read or parsed the cleaner exits with
\* status 1, as for missing arguments, and writes no output file.
C17_UnreadableInputExitsOne ==
    /\ (norm.pc = "exit" /\ norm.argv.argc < 3) =>
          norm.status = 1 /\ norm.output = None
    /\ (norm.pc = "exit" /\ norm.argv.argc >= 3 /\ ~norm.argv.input.readable) =>
          norm.status = 1 /\ norm.output = None
====
